---- MODULE Spec2Model ----
(***************************************************************************)
(* A model of awss3.S3Bucket (Describe / Create / Modify / Delete) and of  *)
(* the S3 service it talks to.  Every remote call of the component is one  *)
(* step; the code between two remote calls belongs to the step of the call *)
(* that precedes it.  The service is the environment: it keeps the buckets *)
(* and may fail any call.                                                  *)
(***************************************************************************)
EXTENDS Integers, Sequences, FiniteSets, TLC

VARIABLES
    store,               \* the service: bucket name -> bucket
    pc,                  \* caller -> the remote call it is about to issue
    args,                \* caller -> operation, bucketName, bucketDetails
    marker,              \* caller -> clearObjects' marker
    keyMarker,           \* caller -> clearVersions' keyMarker
    versionIdMarker,     \* caller -> clearVersions' versionIdMarker
    objects,             \* caller -> the []*s3.ObjectIdentifier of the page
    output,              \* caller -> the last list / create output
    putPolicyInput,      \* caller -> the s3.PutBucketPolicyInput built
    calls,               \* caller -> the remote calls issued, in order
    ret,                 \* caller -> what the operation returned
    before               \* caller -> the bucket as it was when the call began

vars == <<store, pc, args, marker, keyMarker, versionIdMarker, objects,
          output, putPolicyInput, calls, ret, before>>

-----------------------------------------------------------------------------
(* Bounds of the model *)

MaxKey == 3          \* object keys are 1..MaxKey
PageCap == 2         \* the most entries the service puts in one page
MaxEntries == 4      \* the most entries a bucket starts with
MaxPolicyLen == 2    \* the most tokens of a policy template

(* Program constants *)

MaxKeys == 1000      \* ListObjectsInput.MaxKeys

-----------------------------------------------------------------------------
(* Values *)

Callers == {1, 2}
BucketNames == {"b1", "b2"}
Keys == 1..MaxKey

\* aws.StringValue of an absent (nil) or empty key / marker
NoKey == 0
\* an absent (nil) version id; an ObjectIdentifier without VersionId
NoVersionId == 0
\* the version id "null" of an object written while versioning was off
NullVersionId == 1
\* the version ids buckets start with; later ones are minted by the service
InitVersionIds == {NullVersionId, NullVersionId + 1}

Min(a, b) == IF a < b THEN a ELSE b

SetMax(S) == CHOOSE x \in S : \A y \in S : y <= x

-----------------------------------------------------------------------------
(* Errors *)

NilErr == [type |-> "nil"]

\* errors.New(text): a new error value holding text
ErrorsNew(text) == [type |-> "errorString", id |-> "new", text |-> text]

ErrBucketDoesNotExist ==
    [type |-> "errorString", id |-> "ErrBucketDoesNotExist",
     text |-> <<"s3 bucket does not exist">>]

\* What a failed remote call hands back: an awserr.RequestFailure (an
\* awserr.Error with an HTTP status), an awserr.Error with no status, or an
\* error that is no awserr.Error.
RequestFailure(status, code) ==
    [kind |-> "RequestFailure", status |-> status, code |-> code,
     message |-> "msg-" \o code]

NoSuchBucket == RequestFailure(404, "NoSuchBucket")
BucketNotEmpty == RequestFailure(409, "BucketNotEmpty")
BucketAlreadyExists == RequestFailure(409, "BucketAlreadyExists")

ServiceFailures ==
    { RequestFailure(400, "BadRequest"),
      RequestFailure(403, "AccessDenied"),
      NoSuchBucket,
      RequestFailure(500, "InternalError"),
      [kind |-> "awserr", status |-> 0, code |-> "RequestCanceled",
       message |-> "msg-RequestCanceled"],
      [kind |-> "error", status |-> 0, code |-> "", message |-> "EOF"] }

IsAwsErr(err) == err.kind \in {"awserr", "RequestFailure"}
IsRequestFailure(err) == err.kind = "RequestFailure"

\* if awsErr, ok := err.(awserr.Error); ok { return errors.New(Code + ": " + Message) }
\* return err
TranslateErr(err) ==
    IF IsAwsErr(err)
    THEN ErrorsNew(<<err.code, ": ", err.message>>)
    ELSE [type |-> "raw", cause |-> err]

-----------------------------------------------------------------------------
(* The S3 service *)

\* An entry of a bucket: a version of an object, or a delete marker.
Entry(k, v, d) == [key |-> k, vid |-> v, dm |-> d]

NoBucket == [exists |-> FALSE, versioned |-> FALSE, entries |-> {}, policy |-> <<>>]

EmptyBucket == [exists |-> TRUE, versioned |-> FALSE, entries |-> {}, policy |-> <<>>]

\* The keys a plain listing shows: those whose latest entry is an object.
CurrentKeys(bucket) ==
    { k \in Keys : \E e \in bucket.entries :
        /\ e.key = k
        /\ ~e.dm
        /\ \A f \in bucket.entries : f.key = k => f.vid <= e.vid }

\* Listing order of versions: by key, and within a key the latest first.
Precedes(e, f) == e.key < f.key \/ (e.key = f.key /\ e.vid > f.vid)

RECURSIVE SortKeys(_)
SortKeys(S) ==
    IF S = {} THEN <<>>
    ELSE LET k == CHOOSE x \in S : \A y \in S : x <= y
         IN <<k>> \o SortKeys(S \ {k})

RECURSIVE SortEntries(_)
SortEntries(S) ==
    IF S = {} THEN <<>>
    ELSE LET e == CHOOSE x \in S : \A y \in S : x = y \/ Precedes(x, y)
         IN <<e>> \o SortEntries(S \ {e})

\* s3.ListObjects: up to MaxKeys keys after Marker.  Marker echoes the request;
\* NextMarker is set only for requests with a delimiter, which are never sent.
S3ListObjects(bucket, in) ==
    LET ks == SortKeys({ k \in CurrentKeys(bucket) : k > in.Marker })
        n == Min(Min(in.MaxKeys, PageCap), Len(ks))
    IN [Contents |-> SubSeq(ks, 1, n),
        Marker |-> in.Marker,
        NextMarker |-> NoKey,
        IsTruncated |-> n < Len(ks)]

\* The shapes of the next cursors of a truncated version listing: the type
\* s3.ListObjectVersionsOutput keeps NextKeyMarker and NextVersionIdMarker
\* as two independent optional fields.
CursorShapes == {"both", "keyOnly", "versionIdOnly"}

\* s3.ListObjectVersions: the entries after (KeyMarker, VersionIdMarker);
\* with a KeyMarker alone, the entries of the keys after it.  KeyMarker and
\* VersionIdMarker echo the request.
S3ListObjectVersions(bucket, in, shape) ==
    LET rest == { e \in bucket.entries :
                    \/ in.KeyMarker = NoKey
                    \/ e.key > in.KeyMarker
                    \/ /\ in.VersionIdMarker # NoVersionId
                       /\ e.key = in.KeyMarker
                       /\ e.vid < in.VersionIdMarker }
        es == SortEntries(rest)
        n == Min(PageCap, Len(es))
        page == SubSeq(es, 1, n)
        truncated == n < Len(es)
        ident(e) == [Key |-> e.key, VersionId |-> e.vid]
        IsVersion(e) == ~e.dm
        IsMarker(e) == e.dm
        vs == SelectSeq(page, IsVersion)
        ds == SelectSeq(page, IsMarker)
    IN [Versions |-> [i \in 1..Len(vs) |-> ident(vs[i])],
        DeleteMarkers |-> [i \in 1..Len(ds) |-> ident(ds[i])],
        KeyMarker |-> in.KeyMarker,
        VersionIdMarker |-> in.VersionIdMarker,
        NextKeyMarker |->
            IF truncated /\ shape # "versionIdOnly" THEN page[n].key ELSE NoKey,
        NextVersionIdMarker |->
            IF truncated /\ shape # "keyOnly" THEN page[n].vid ELSE NoVersionId,
        IsTruncated |-> truncated]

\* The version id the service mints for a new delete marker.
FreshVersionId(entries) ==
    SetMax({ e.vid : e \in entries } \cup InitVersionIds) + 1

\* s3.DeleteObjects on one identifier: with a VersionId that entry goes; with
\* a key alone the object goes (versioning off) or gets a delete marker on
\* top (versioning on).
DeleteOne(bucket, o) ==
    IF o.VersionId # NoVersionId
    THEN [bucket EXCEPT !.entries =
            { e \in @ : ~(e.key = o.Key /\ e.vid = o.VersionId) }]
    ELSE IF bucket.versioned
    THEN [bucket EXCEPT !.entries =
            @ \cup {Entry(o.Key, FreshVersionId(@), TRUE)}]
    ELSE [bucket EXCEPT !.entries =
            { e \in @ : ~(e.key = o.Key /\ e.vid = NullVersionId) }]

RECURSIVE S3DeleteObjects(_, _)
S3DeleteObjects(bucket, objs) ==
    IF objs = <<>> THEN bucket
    ELSE S3DeleteObjects(DeleteOne(bucket, Head(objs)), Tail(objs))

\* s3.CreateBucket: a new, empty, unversioned bucket with no policy.
S3CreateBucket(name) == [Location |-> <<"/", name>>]

\* The bucket of a name; a name the service has never seen has none.
BucketOf(name) == IF name \in DOMAIN store THEN store[name] ELSE NoBucket

\* The ways a call can fail: on a bucket that does not exist with
\* NoSuchBucket, creating one that exists with BucketAlreadyExists,
\* deleting a non-empty one with BucketNotEmpty, and otherwise for any
\* reason of the service's own.
Failures(op, bucket) ==
    IF op = "CreateBucket"
    THEN IF bucket.exists THEN {BucketAlreadyExists} ELSE ServiceFailures
    ELSE IF ~bucket.exists THEN {NoSuchBucket}
    ELSE IF op = "DeleteBucket" /\ bucket.entries # {} THEN {BucketNotEmpty}
    ELSE ServiceFailures

CanSucceed(op, bucket) ==
    IF op = "CreateBucket" THEN ~bucket.exists
    ELSE IF op = "DeleteBucket" THEN bucket.exists /\ bucket.entries = {}
    ELSE bucket.exists

-----------------------------------------------------------------------------
(* The component: shared pieces *)

NoFailure == [kind |-> "none", status |-> 0, code |-> "", message |-> ""]

NoOutput == [none |-> TRUE]

NoArgs == [op |-> "none", bucketName |-> "", bucketDetails |-> [none |-> TRUE]]

NoReturn == [err |-> NilErr, location |-> <<>>]

\* One remote call of the trace: the operation of the service, the place of
\* the component that issued it, the request, the failure (or NoFailure) and
\* the response.
RemoteCall(op, at, in, err, out) ==
    [op |-> op, at |-> at, in |-> in, err |-> err, out |-> out]

\* p issues a remote call.
Issue(p, op, in, err, out) ==
    calls' = [calls EXCEPT ![p] = Append(@, RemoteCall(op, pc[p], in, err, out))]

\* p's operation returns (err, location).
Return(p, err, location) ==
    /\ pc' = [pc EXCEPT ![p] = "done"]
    /\ ret' = [ret EXCEPT ![p] = [err |-> err, location |-> location]]

-----------------------------------------------------------------------------
(* Delete: clear (clearObjects, then clearVersions), then DeleteBucket *)

\* clearObjects: objects = one ObjectIdentifier{Key} per listObjectsOutput.Contents
ObjectKeys(out) ==
    [i \in 1..Len(out.Contents) |-> [Key |-> out.Contents[i], VersionId |-> NoVersionId]]

\* clearVersions: objects = one ObjectIdentifier{Key, VersionId} per
\* listVersionsOutput.Versions
VersionIdentifiers(out) ==
    [i \in 1..Len(out.Versions) |->
        [Key |-> out.Versions[i].Key, VersionId |-> out.Versions[i].VersionId]]

\* A slip: the batch-delete is issued for an empty page too.
HasObjects_Always(objs) == TRUE

\* if len(objects) > 0
HasObjects(objs) == Len(objs) > 0

\* A slip: clear returns after clearObjects, the version purge is skipped.
AfterObjectsPage_SkipVersions(out) ==
    IF out.Marker = NoKey THEN "DeleteBucket" ELSE "ListObjects"

\* clearObjects: if aws.StringValue(listObjectsOutput.Marker) == "" { break };
\* after the loop clear goes on to clearVersions.
AfterObjectsPage(out) ==
    IF out.Marker = NoKey THEN "ListObjectVersions" ELSE "ListObjects"

\* A slip: the exit test of clearVersions is gone, the loop lists again
\* after every page.
AfterVersionsPage_NoBreak(km, vm) == "ListObjectVersions"

\* clearVersions: if aws.StringValue(keyMarker) == "" &&
\* aws.StringValue(versionIdMarker) == "" { break }; after the loop clear
\* returns nil and Delete goes on to DeleteBucket.
AfterVersionsPage(km, vm) ==
    IF km = NoKey /\ vm = NoVersionId THEN "DeleteBucket" ELSE "ListObjectVersions"

\* clearVersions: keyMarker = listVersionsOutput.NextKeyMarker
NextKeyMarkerOf(out) == out.NextKeyMarker

\* clearVersions: versionIdMarker = listVersionsOutput.VersionIdMarker
NextVersionIdMarkerOf(out) == out.VersionIdMarker

\* A slip: clear's error is dropped and Delete goes on to DeleteBucket.
PurgeFailed_Swallowed(p, err) ==
    /\ pc' = [pc EXCEPT ![p] = "DeleteBucket"]
    /\ UNCHANGED ret

\* clearObjects / clearVersions / clear / Delete: if err != nil { return err }
PurgeFailed(p, err) == Return(p, TranslateErr(err), <<>>)

\* A slip: only status 404 is taken for a missing bucket.
DeleteBucketErr_Only404(err) ==
    IF IsAwsErr(err)
    THEN IF IsRequestFailure(err) /\ err.status = 404
         THEN ErrBucketDoesNotExist
         ELSE ErrorsNew(<<err.code, ": ", err.message>>)
    ELSE [type |-> "raw", cause |-> err]

\* Delete: the error returned for a failed DeleteBucket.
DeleteBucketErr(err) ==
    IF IsAwsErr(err)
    THEN IF IsRequestFailure(err) /\ (err.status = 400 \/ err.status = 404)
         THEN ErrBucketDoesNotExist
         ELSE ErrorsNew(<<err.code, ": ", err.message>>)
    ELSE [type |-> "raw", cause |-> err]

\* A slip: the bucket name is kept in a field of the shared S3Bucket, so a
\* new call replaces it for the calls already running.
CallDelete_SharedName(p, b) ==
    /\ pc[p] = "idle"
    /\ args' = [q \in Callers |->
            [op |-> IF q = p THEN "Delete" ELSE args[q].op,
             bucketName |-> b, bucketDetails |-> [none |-> TRUE]]]
    /\ before' = [before EXCEPT ![p] = store[b]]
    /\ marker' = [marker EXCEPT ![p] = NoKey]
    /\ keyMarker' = [keyMarker EXCEPT ![p] = NoKey]
    /\ versionIdMarker' = [versionIdMarker EXCEPT ![p] = NoVersionId]
    /\ objects' = [objects EXCEPT ![p] = <<>>]
    /\ pc' = [pc EXCEPT ![p] = "ListObjects"]
    /\ UNCHANGED <<store, output, putPolicyInput, calls, ret>>

\* Delete(bucketName) is called.
CallDelete(p, b) ==
    /\ pc[p] = "idle"
    /\ args' = [args EXCEPT ![p] =
            [op |-> "Delete", bucketName |-> b, bucketDetails |-> [none |-> TRUE]]]
    /\ before' = [before EXCEPT ![p] = store[b]]
    /\ marker' = [marker EXCEPT ![p] = NoKey]
    /\ keyMarker' = [keyMarker EXCEPT ![p] = NoKey]
    /\ versionIdMarker' = [versionIdMarker EXCEPT ![p] = NoVersionId]
    /\ objects' = [objects EXCEPT ![p] = <<>>]
    /\ pc' = [pc EXCEPT ![p] = "ListObjects"]
    /\ UNCHANGED <<store, output, putPolicyInput, calls, ret>>

\* clearObjects: s3svc.ListObjects and the code up to the next remote call.
ListObjects(p) ==
    /\ pc[p] = "ListObjects"
    /\ LET b == args[p].bucketName
           in == [Bucket |-> b, MaxKeys |-> MaxKeys, Marker |-> marker[p]]
       IN \/ \E err \in Failures("ListObjects", store[b]) :
                /\ Issue(p, "ListObjects", in, err, NoOutput)
                /\ PurgeFailed(p, err)
                /\ UNCHANGED <<store, objects, output>>
          \/ /\ CanSucceed("ListObjects", store[b])
             /\ LET out == S3ListObjects(store[b], in)
                    objs == ObjectKeys(out)
                IN /\ Issue(p, "ListObjects", in, NoFailure, out)
                   /\ objects' = [objects EXCEPT ![p] = objs]
                   /\ output' = [output EXCEPT ![p] = out]
                   /\ pc' = [pc EXCEPT ![p] =
                        IF HasObjects(objs) THEN "DeleteObjects"
                        ELSE AfterObjectsPage(out)]
                   /\ UNCHANGED <<store, ret>>
    /\ UNCHANGED <<args, marker, keyMarker, versionIdMarker, putPolicyInput, before>>

\* clearObjects: s3svc.DeleteObjects of the page's keys, then the loop's exit test.
DeleteObjects(p) ==
    /\ pc[p] = "DeleteObjects"
    /\ LET b == args[p].bucketName
           in == [Bucket |-> b, Objects |-> objects[p]]
       IN \/ \E err \in Failures("DeleteObjects", store[b]) :
                /\ Issue(p, "DeleteObjects", in, err, NoOutput)
                /\ PurgeFailed(p, err)
                /\ UNCHANGED store
          \/ /\ CanSucceed("DeleteObjects", store[b])
             /\ Issue(p, "DeleteObjects", in, NoFailure, NoOutput)
             /\ store' = [store EXCEPT ![b] = S3DeleteObjects(@, objects[p])]
             /\ pc' = [pc EXCEPT ![p] = AfterObjectsPage(output[p])]
             /\ UNCHANGED ret
    /\ UNCHANGED <<args, marker, keyMarker, versionIdMarker, objects, output,
                   putPolicyInput, before>>

\* clearVersions: s3svc.ListObjectVersions and the code up to the next remote call.
ListObjectVersions(p) ==
    /\ pc[p] = "ListObjectVersions"
    /\ LET b == args[p].bucketName
           in == [Bucket |-> b, KeyMarker |-> keyMarker[p],
                  VersionIdMarker |-> versionIdMarker[p]]
       IN \/ \E err \in Failures("ListObjectVersions", store[b]) :
                /\ Issue(p, "ListObjectVersions", in, err, NoOutput)
                /\ PurgeFailed(p, err)
                /\ UNCHANGED <<store, objects, output, keyMarker, versionIdMarker>>
          \/ /\ CanSucceed("ListObjectVersions", store[b])
             /\ \E shape \in CursorShapes :
                LET out == S3ListObjectVersions(store[b], in, shape)
                    objs == VersionIdentifiers(out)
                IN /\ Issue(p, "ListObjectVersions", in, NoFailure, out)
                   /\ objects' = [objects EXCEPT ![p] = objs]
                   /\ output' = [output EXCEPT ![p] = out]
                   /\ IF HasObjects(objs)
                      THEN /\ pc' = [pc EXCEPT ![p] = "DeleteVersions"]
                           /\ UNCHANGED <<keyMarker, versionIdMarker>>
                      ELSE /\ keyMarker' = [keyMarker EXCEPT ![p] = NextKeyMarkerOf(out)]
                           /\ versionIdMarker' =
                                [versionIdMarker EXCEPT ![p] = NextVersionIdMarkerOf(out)]
                           /\ pc' = [pc EXCEPT ![p] =
                                AfterVersionsPage(NextKeyMarkerOf(out),
                                                  NextVersionIdMarkerOf(out))]
                   /\ UNCHANGED <<store, ret>>
    /\ UNCHANGED <<args, marker, putPolicyInput, before>>

\* clearVersions: s3svc.DeleteObjects of the page's versions, then the
\* cursors and the loop's exit test.
DeleteVersions(p) ==
    /\ pc[p] = "DeleteVersions"
    /\ LET b == args[p].bucketName
           in == [Bucket |-> b, Objects |-> objects[p]]
           out == output[p]
       IN \/ \E err \in Failures("DeleteObjects", store[b]) :
                /\ Issue(p, "DeleteObjects", in, err, NoOutput)
                /\ PurgeFailed(p, err)
                /\ UNCHANGED <<store, keyMarker, versionIdMarker>>
          \/ /\ CanSucceed("DeleteObjects", store[b])
             /\ Issue(p, "DeleteObjects", in, NoFailure, NoOutput)
             /\ store' = [store EXCEPT ![b] = S3DeleteObjects(@, objects[p])]
             /\ keyMarker' = [keyMarker EXCEPT ![p] = NextKeyMarkerOf(out)]
             /\ versionIdMarker' =
                    [versionIdMarker EXCEPT ![p] = NextVersionIdMarkerOf(out)]
             /\ pc' = [pc EXCEPT ![p] =
                    AfterVersionsPage(NextKeyMarkerOf(out), NextVersionIdMarkerOf(out))]
             /\ UNCHANGED ret
    /\ UNCHANGED <<args, marker, objects, output, putPolicyInput, before>>

\* Delete: s3svc.DeleteBucket and the return.
DeleteBucket(p) ==
    /\ pc[p] = "DeleteBucket"
    /\ LET b == args[p].bucketName
           in == [Bucket |-> b]
       IN \/ \E err \in Failures("DeleteBucket", store[b]) :
                /\ Issue(p, "DeleteBucket", in, err, NoOutput)
                /\ Return(p, DeleteBucketErr(err), <<>>)
                /\ UNCHANGED store
          \/ /\ CanSucceed("DeleteBucket", store[b])
             /\ Issue(p, "DeleteBucket", in, NoFailure, NoOutput)
             /\ store' = [store EXCEPT ![b] = NoBucket]
             /\ Return(p, NilErr, <<>>)
    /\ UNCHANGED <<args, marker, keyMarker, versionIdMarker, objects, output,
                   putPolicyInput, before>>

-----------------------------------------------------------------------------
(* The buckets a run starts with *)

\* The entries a bucket can start with: at most one entry per key and
\* version id; delete markers only carry version ids minted under versioning.
EntrySlots == Keys \X InitVersionIds

Contents(versioned) ==
    IF versioned
    THEN UNION { { { Entry(s[1], s[2], f[s]) : s \in slots } :
                    f \in { g \in [slots -> BOOLEAN] :
                              \A s \in slots : s[2] = NullVersionId => ~g[s] } } :
                 slots \in { S \in SUBSET EntrySlots : Cardinality(S) <= MaxEntries } }
    ELSE { { Entry(k, NullVersionId, FALSE) : k \in ks } :
            ks \in { S \in SUBSET Keys : Cardinality(S) <= MaxEntries } }

ExistingBuckets ==
    { [exists |-> TRUE, versioned |-> v[1], entries |-> v[2], policy |-> <<>>] :
        v \in ({TRUE} \X Contents(TRUE)) \cup ({FALSE} \X Contents(FALSE)) }

InitCallers ==
    /\ pc = [p \in Callers |-> "idle"]
    /\ args = [p \in Callers |-> NoArgs]
    /\ marker = [p \in Callers |-> NoKey]
    /\ keyMarker = [p \in Callers |-> NoKey]
    /\ versionIdMarker = [p \in Callers |-> NoVersionId]
    /\ objects = [p \in Callers |-> <<>>]
    /\ output = [p \in Callers |-> NoOutput]
    /\ putPolicyInput = [p \in Callers |-> NoOutput]
    /\ calls = [p \in Callers |-> <<>>]
    /\ ret = [p \in Callers |-> NoReturn]
    /\ before = [p \in Callers |-> NoBucket]

\* One caller deletes a bucket: "b1" exists with some content, "b2" does not.
Init ==
    /\ \E bucket \in ExistingBuckets : store = [b \in BucketNames |->
            IF b = "b1" THEN bucket ELSE NoBucket]
    /\ InitCallers

DeleteStep(p) ==
    \/ ListObjects(p)
    \/ DeleteObjects(p)
    \/ ListObjectVersions(p)
    \/ DeleteVersions(p)
    \/ DeleteBucket(p)

Next ==
    \/ \E b \in BucketNames : CallDelete(1, b)
    \/ DeleteStep(1)

Spec == Init /\ [][Next]_vars

-----------------------------------------------------------------------------
(* Create: CreateBucket, then the policy template and PutBucketPolicy *)

\* The pieces of a policy template: plain text, a field of the data
\* ({{.BucketName}}), or an action that is never closed ("{{").
Text == [kind |-> "text", name |-> "text"]
Field(name) == [kind |-> "field", name |-> name]
Unclosed == [kind |-> "unclosed", name |-> "{{"]

Tokens == {Text, Field("BucketName"), Field("Region"), Field("Missing"), Unclosed}

RECURSIVE SeqsOf(_, _)
SeqsOf(S, n) ==
    IF n = 0 THEN {<<>>}
    ELSE LET shorter == SeqsOf(S, n - 1)
         IN shorter \cup { Append(q, x) : q \in { r \in shorter : Len(r) = n - 1 }, x \in S }

Policies == SeqsOf(Tokens, MaxPolicyLen)

\* The BucketDetails a caller passes to Create.
Details ==
    [BucketName : BucketNames \cup {""}, Region : {"us-east-1"}, ARN : {"arn"}, Policy : Policies]

\* template.New("policy").Parse(text): an unclosed action is a parse error.
Parse(text) ==
    IF \E i \in 1..Len(text) : text[i].kind = "unclosed"
    THEN [err |-> [type |-> "template", stage |-> "parse"], tmpl |-> <<>>]
    ELSE [err |-> NilErr, tmpl |-> text]

\* tmpl.Execute(&policy, data): text is copied, a field is replaced by the
\* data's value for it, a field the data has not is an execution error.
RECURSIVE Execute(_, _)
Execute(tmpl, data) ==
    IF tmpl = <<>> THEN [err |-> NilErr, policy |-> <<>>]
    ELSE LET t == Head(tmpl)
             rest == Execute(Tail(tmpl), data)
         IN IF t.kind = "field" /\ t.name \notin DOMAIN data
            THEN [err |-> [type |-> "template", stage |-> "execute"], policy |-> <<>>]
            ELSE IF rest.err # NilErr THEN rest
            ELSE [err |-> NilErr,
                  policy |-> <<IF t.kind = "field" THEN data[t.name] ELSE t.name>>
                             \o rest.policy]

\* A slip: the details are rendered with the BucketName the caller put in.
WithBucketName_Kept(bucketDetails, bucketName) == bucketDetails

\* Create: bucketDetails.BucketName = bucketName
WithBucketName(bucketDetails, bucketName) ==
    [bucketDetails EXCEPT !.BucketName = bucketName]

\* A slip: the failed step is tried again instead of returning.
CreateFailed_Retry(p, err) == UNCHANGED <<pc, ret>>

\* Create: every return "", err after CreateBucket succeeded.
CreateFailed(p, err) == Return(p, err, <<>>)

\* A slip: the failure of CreateBucket is logged and Create reports success.
CreateBucketFailed_Success(p, err) == Return(p, NilErr, <<>>)

\* Create: CreateBucket failed: return "", errors.New(Code + ": " + Message)
\* (or "", err).
CreateBucketFailed(p, err) == Return(p, TranslateErr(err), <<>>)

\* Create(bucketName, bucketDetails) is called.
CallCreate(p, b, details) ==
    /\ pc[p] = "idle"
    /\ args' = [args EXCEPT ![p] =
            [op |-> "Create", bucketName |-> b, bucketDetails |-> details]]
    /\ before' = [before EXCEPT ![p] = store[b]]
    /\ pc' = [pc EXCEPT ![p] = "CreateBucket"]
    /\ UNCHANGED <<store, marker, keyMarker, versionIdMarker, objects, output,
                   putPolicyInput, calls, ret>>

\* Create: s3svc.CreateBucket and the code up to PutBucketPolicy.
CreateBucket(p) ==
    /\ pc[p] = "CreateBucket"
    /\ LET b == args[p].bucketName
           in == [Bucket |-> b]
       IN \/ \E err \in Failures("CreateBucket", store[b]) :
                /\ Issue(p, "CreateBucket", in, err, NoOutput)
                /\ CreateBucketFailed(p, err)
                /\ UNCHANGED <<store, output, putPolicyInput>>
          \/ /\ CanSucceed("CreateBucket", store[b])
             /\ LET out == S3CreateBucket(b)
                    bucketDetails == WithBucketName(args[p].bucketDetails, b)
                    parsed == Parse(bucketDetails.Policy)
                    executed == Execute(parsed.tmpl, bucketDetails)
                IN /\ Issue(p, "CreateBucket", in, NoFailure, out)
                   /\ store' = [store EXCEPT ![b] = EmptyBucket]
                   /\ output' = [output EXCEPT ![p] = out]
                   /\ IF Len(args[p].bucketDetails.Policy) > 0
                      THEN IF parsed.err # NilErr
                           THEN /\ CreateFailed(p, parsed.err)
                                /\ UNCHANGED putPolicyInput
                           ELSE IF executed.err # NilErr
                           THEN /\ CreateFailed(p, executed.err)
                                /\ UNCHANGED putPolicyInput
                           ELSE /\ putPolicyInput' = [putPolicyInput EXCEPT ![p] =
                                        [Bucket |-> bucketDetails.BucketName,
                                         Policy |-> executed.policy]]
                                /\ pc' = [pc EXCEPT ![p] = "PutBucketPolicy"]
                                /\ UNCHANGED ret
                      ELSE /\ Return(p, NilErr, out.Location)
                           /\ UNCHANGED putPolicyInput
    /\ UNCHANGED <<args, marker, keyMarker, versionIdMarker, objects, before>>

\* Create: s3svc.PutBucketPolicy and the return.
PutBucketPolicy(p) ==
    /\ pc[p] = "PutBucketPolicy"
    /\ LET in == putPolicyInput[p]
           b == in.Bucket
       IN \/ \E err \in Failures("PutBucketPolicy", BucketOf(b)) :
                /\ Issue(p, "PutBucketPolicy", in, err, NoOutput)
                /\ CreateFailed(p, TranslateErr(err))
                /\ UNCHANGED store
          \/ /\ CanSucceed("PutBucketPolicy", BucketOf(b))
             /\ Issue(p, "PutBucketPolicy", in, NoFailure, NoOutput)
             /\ store' = [store EXCEPT ![b].policy = in.Policy]
             /\ Return(p, NilErr, output[p].Location)
    /\ UNCHANGED <<args, marker, keyMarker, versionIdMarker, objects, output,
                   putPolicyInput, before>>

\* One caller creates a bucket; each name is free or taken.
InitCreate ==
    /\ store \in [BucketNames -> {NoBucket, EmptyBucket}]
    /\ InitCallers

NextCreate ==
    \/ \E b \in BucketNames, details \in Details : CallCreate(1, b, details)
    \/ CreateBucket(1)
    \/ PutBucketPolicy(1)

SpecCreate == InitCreate /\ [][NextCreate]_vars

-----------------------------------------------------------------------------
(* Describe: GetBucketLocation, then buildBucketDetails *)

Partitions == {"aws", "aws-us-gov"}

\* A *string: nil, or a pointer to a string.
NilString == <<>>
StringPtr(str) == <<str>>

\* What GetBucketLocation can report as LocationConstraint: nothing, the
\* empty string (both stand for the default region), or a region.
LocationConstraints == {NilString, StringPtr(""), StringPtr("eu-west-1")}

\* BucketDetails{}
ZeroBucketDetails == [BucketName |-> "", Region |-> "", ARN |-> ""]

\* fmt.Sprintf(format, values...): every %s of the format is replaced by the
\* next value, the other pieces stay.
RECURSIVE Sprintf(_, _)
Sprintf(format, values) ==
    IF format = <<>> THEN ""
    ELSE IF Head(format) = "%s"
    THEN Head(values) \o Sprintf(Tail(format), Tail(values))
    ELSE Head(format) \o Sprintf(Tail(format), values)

\* A slip: the two values of the ARN are passed in the wrong order.
buildBucketDetails_Swapped(bucketName, region, partition) ==
    [BucketName |-> bucketName,
     Region |-> region,
     ARN |-> Sprintf(<<"arn:", "%s", ":s3:::", "%s">>, <<bucketName, partition>>)]

\* buildBucketDetails(bucketName, region, partition, nil)
buildBucketDetails(bucketName, region, partition) ==
    [BucketName |-> bucketName,
     Region |-> region,
     ARN |-> Sprintf(<<"arn:", "%s", ":s3:::", "%s">>, <<partition, bucketName>>)]

\* Describe: the error returned for a failed GetBucketLocation.
DescribeErr(err) ==
    IF IsAwsErr(err)
    THEN ErrorsNew(<<err.code, ": ", err.message>>)
    ELSE [type |-> "raw", cause |-> err]

\* Describe returns (details, err).
DescribeReturn(p, details, err) ==
    /\ pc' = [pc EXCEPT ![p] = "done"]
    /\ ret' = [ret EXCEPT ![p] = [err |-> err, details |-> details]]

\* Describe(bucketName, partition) is called.
CallDescribe(p, b, partition) ==
    /\ pc[p] = "idle"
    /\ args' = [args EXCEPT ![p] =
            [op |-> "Describe", bucketName |-> b, partition |-> partition,
             bucketDetails |-> [none |-> TRUE]]]
    /\ before' = [before EXCEPT ![p] = store[b]]
    /\ pc' = [pc EXCEPT ![p] = "GetBucketLocation"]
    /\ UNCHANGED <<store, marker, keyMarker, versionIdMarker, objects, output,
                   putPolicyInput, calls, ret>>

\* Describe: s3svc.GetBucketLocation and the return.  Dereferencing a nil
\* LocationConstraint panics: the call never returns.
GetBucketLocation(p) ==
    /\ pc[p] = "GetBucketLocation"
    /\ LET b == args[p].bucketName
           in == [Bucket |-> b]
       IN \/ \E err \in Failures("GetBucketLocation", store[b]) :
                /\ Issue(p, "GetBucketLocation", in, err, NoOutput)
                /\ DescribeReturn(p, ZeroBucketDetails, DescribeErr(err))
                /\ UNCHANGED output
          \/ /\ CanSucceed("GetBucketLocation", store[b])
             /\ \E constraint \in LocationConstraints :
                LET out == [LocationConstraint |-> constraint]
                IN /\ Issue(p, "GetBucketLocation", in, NoFailure, out)
                   /\ output' = [output EXCEPT ![p] = out]
                   /\ IF constraint = NilString
                      THEN /\ pc' = [pc EXCEPT ![p] = "panic"]
                           /\ UNCHANGED ret
                      ELSE DescribeReturn(p,
                                buildBucketDetails(b, constraint[1], args[p].partition),
                                NilErr)
    /\ UNCHANGED <<store, args, marker, keyMarker, versionIdMarker, objects,
                   putPolicyInput, before>>

-----------------------------------------------------------------------------
(* Modify: nothing *)

\* A slip: Modify applies the policy of the details.
ModifyBucket_AppliesPolicy(bucket, bucketDetails) ==
    [bucket EXCEPT !.policy = bucketDetails.Policy]

\* Modify: what it does to the bucket (// TODO Implement modifx).
ModifyBucket(bucket, bucketDetails) == bucket

\* Modify(bucketName, bucketDetails): return nil.
Modify(p, b, details) ==
    /\ pc[p] = "idle"
    /\ args' = [args EXCEPT ![p] =
            [op |-> "Modify", bucketName |-> b, bucketDetails |-> details]]
    /\ before' = [before EXCEPT ![p] = store[b]]
    /\ store' = [store EXCEPT ![b] = ModifyBucket(@, details)]
    /\ Return(p, NilErr, <<>>)
    /\ UNCHANGED <<marker, keyMarker, versionIdMarker, objects, output,
                   putPolicyInput, calls>>

\* A bucket with an object and a policy.
BucketWithPolicy ==
    [exists |-> TRUE, versioned |-> FALSE,
     entries |-> {Entry(1, NullVersionId, FALSE)}, policy |-> <<"policy">>]

\* One caller describes or modifies a bucket.
InitDescribe ==
    /\ store \in [BucketNames -> {NoBucket, EmptyBucket, BucketWithPolicy}]
    /\ InitCallers

NextDescribe ==
    \/ \E b \in BucketNames, partition \in Partitions : CallDescribe(1, b, partition)
    \/ GetBucketLocation(1)
    \/ \E b \in BucketNames, details \in Details : Modify(1, b, details)

SpecDescribe == InitDescribe /\ [][NextDescribe]_vars

-----------------------------------------------------------------------------
(* Two callers share one S3Bucket and delete different buckets *)

\* The buckets of the two-caller runs: none, an empty one, an unversioned
\* one with an object per key and a versioned one with two versions and a
\* delete marker.
ConcurrentBuckets ==
    { NoBucket,
      EmptyBucket,
      [exists |-> TRUE, versioned |-> FALSE, policy |-> <<>>,
       entries |-> { Entry(k, NullVersionId, FALSE) : k \in Keys }],
      [exists |-> TRUE, versioned |-> TRUE, policy |-> <<>>,
       entries |-> { Entry(1, 2, FALSE), Entry(1, 3, TRUE), Entry(2, 2, FALSE) }] }

InitConcurrent ==
    /\ store \in [BucketNames -> ConcurrentBuckets]
    /\ InitCallers

\* Delete is called by a caller on a bucket name no other caller has named.
CallDeleteOther(p, b) ==
    /\ \A q \in Callers \ {p} : args[q].bucketName # b
    /\ CallDelete(p, b)

NextConcurrent ==
    \E p \in Callers :
        \/ \E b \in BucketNames : CallDeleteOther(p, b)
        \/ DeleteStep(p)

SpecConcurrent == InitConcurrent /\ [][NextConcurrent]_vars

-----------------------------------------------------------------------------
(* Properties of Delete *)

\* The names of the remote calls p has issued, in order.
Ops(p) == [i \in 1..Len(calls[p]) |-> calls[p][i].op]

Deleting(p) == args[p].op = "Delete"

Succeeded(c) == c.err = NoFailure

\* The batch-deletes of p's object purge / version purge.
ObjectBatches(p) ==
    { i \in 1..Len(calls[p]) : calls[p][i].op = "DeleteObjects" /\ calls[p][i].at = "DeleteObjects" }

VersionBatches(p) ==
    { i \in 1..Len(calls[p]) : calls[p][i].op = "DeleteObjects" /\ calls[p][i].at = "DeleteVersions" }

\* C1: when Delete issues the delete-bucket call (no other writer), the
\* bucket holds no current object, no object version and no delete marker.
C1_EmptyWhenDeleteBucketIssued ==
    \A p \in Callers :
        (Deleting(p) /\ pc[p] = "DeleteBucket") => store[args[p].bucketName].entries = {}

\* C2: the remote calls of one Delete go object purge, version purge,
\* delete-bucket and never back: nothing follows the delete-bucket call (so
\* it is issued at most once), no list-objects call and no batch-delete of
\* the object purge follows a call of the version purge, and the
\* delete-bucket call is issued only after both purges ran and every call of
\* them succeeded, the version purge last.
C2_PhaseOrder ==
    \A p \in Callers : Deleting(p) =>
        LET cs == calls[p]
            n == Len(cs)
            InObjectPurge(c) == c.at \in {"ListObjects", "DeleteObjects"}
            InVersionPurge(c) == c.at \in {"ListObjectVersions", "DeleteVersions"}
            PurgesDone(k) ==
                /\ \A i \in 1..k : Succeeded(cs[i])
                /\ \E i \in 1..k : cs[i].op = "ListObjects"
                /\ \E i \in 1..k : cs[i].op = "ListObjectVersions"
                /\ k >= 1 /\ InVersionPurge(cs[k])
        IN /\ \A i \in 1..n : cs[i].op = "DeleteBucket" => (i = n /\ PurgesDone(i - 1))
           /\ \A i \in 1..n : \A j \in (i + 1)..n :
                InVersionPurge(cs[i]) => ~InObjectPurge(cs[j])
           /\ pc[p] = "DeleteBucket" => PurgesDone(n)

\* C2's case: a Delete that went through both purges, each with a
\* batch-delete, and then deleted the bucket.
C2_Witness ==
    \E p \in Callers :
        /\ Deleting(p) /\ pc[p] = "done" /\ ret[p].err = NilErr
        /\ ObjectBatches(p) # {} /\ VersionBatches(p) # {}
        /\ Ops(p)[Len(calls[p])] = "DeleteBucket"

\* C3: a failed list-objects, list-object-versions or batch-delete call is
\* the last remote call of its Delete: Delete has returned an error, issued
\* no delete-bucket call, and what the earlier batch-deletes removed is
\* still gone.
C3_PurgeFailureAborts ==
    \A p \in Callers : Deleting(p) =>
        \A i \in 1..Len(calls[p]) :
            LET c == calls[p][i]
                bucket == store[args[p].bucketName]
            IN (c.op # "DeleteBucket" /\ ~Succeeded(c)) =>
                /\ i = Len(calls[p])
                /\ pc[p] = "done"
                /\ ret[p].err # NilErr
                /\ ret[p].err = TranslateErr(c.err)
                /\ \A j \in 1..Len(calls[p]) : calls[p][j].op # "DeleteBucket"
                /\ \A j \in 1..(i - 1) : calls[p][j].op = "DeleteObjects" =>
                     \A k \in 1..Len(calls[p][j].in.Objects) :
                        LET o == calls[p][j].in.Objects[k]
                        IN IF o.VersionId = NoVersionId
                           THEN o.Key \notin CurrentKeys(bucket)
                           ELSE Entry(o.Key, o.VersionId, FALSE) \notin bucket.entries

\* C3's case: a purge call failed after a batch-delete had removed objects.
C3_Witness ==
    \E p \in Callers :
        /\ Deleting(p) /\ pc[p] = "done"
        /\ Len(calls[p]) >= 3
        /\ ~Succeeded(calls[p][Len(calls[p])])
        /\ calls[p][Len(calls[p])].op = "ListObjectVersions"
        /\ ObjectBatches(p) # {}
        /\ CurrentKeys(before[p]) # {}

\* ceil(n / d)
CeilDiv(n, d) == (n + d - 1) \div d

\* The page size of the listing: MaxKeys, or less when the service caps it.
PageSize == Min(MaxKeys, PageCap)

\* C4: once the object purge of a Delete is over without a failure, it has
\* issued ceil(N / page size) batch-deletes for the N current objects the
\* bucket held, each covering exactly the keys of the list-objects page
\* before it.
C4_OneBatchPerPage ==
    \A p \in Callers :
        (/\ Deleting(p)
         /\ \E i \in 1..Len(calls[p]) : calls[p][i].op = "ListObjectVersions") =>
            /\ Cardinality(ObjectBatches(p)) =
                    CeilDiv(Cardinality(CurrentKeys(before[p])), PageSize)
            /\ \A i \in ObjectBatches(p) :
                /\ i > 1
                /\ calls[p][i - 1].op = "ListObjects"
                /\ [k \in 1..Len(calls[p][i].in.Objects) |-> calls[p][i].in.Objects[k].Key]
                        = calls[p][i - 1].out.Contents

\* C5: Delete of a bucket that does not exist returns ErrBucketDoesNotExist.
C5_DeleteOfMissingBucketIsNotFound ==
    \A p \in Callers :
        (Deleting(p) /\ pc[p] = "done" /\ ~before[p].exists) =>
            ret[p].err = ErrBucketDoesNotExist

\* C6: when the delete-bucket call fails, Delete returns
\* ErrBucketDoesNotExist exactly when the failure carries HTTP status 400 or
\* 404; any other failure of the service comes back as a new error made of
\* its code and message, and a failure is never returned as success.
C6_DeleteBucketErrorMapping ==
    \A p \in Callers : Deleting(p) =>
        \A i \in 1..Len(calls[p]) :
            LET c == calls[p][i]
                NotFound == IsRequestFailure(c.err) /\ c.err.status \in {400, 404}
            IN (c.op = "DeleteBucket" /\ ~Succeeded(c)) =>
                /\ pc[p] = "done"
                /\ ret[p].err # NilErr
                /\ (ret[p].err = ErrBucketDoesNotExist) <=> NotFound
                /\ (IsAwsErr(c.err) /\ ~NotFound) =>
                        /\ ret[p].err.type = "errorString"
                        /\ ret[p].err.text = <<c.err.code, ": ", c.err.message>>
                /\ ~IsAwsErr(c.err) => ret[p].err = [type |-> "raw", cause |-> c.err]

\* C6's case: the delete-bucket call failed with status 404 and Delete
\* returned ErrBucketDoesNotExist.
C6_Witness ==
    \E p \in Callers :
        /\ Deleting(p) /\ pc[p] = "done" /\ Len(calls[p]) >= 1
        /\ LET c == calls[p][Len(calls[p])]
           IN c.op = "DeleteBucket" /\ c.err.status = 404
        /\ ret[p].err = ErrBucketDoesNotExist

\* C7: Delete of a bucket with no objects and no versions issues
\* list-objects, list-object-versions and delete-bucket, once each and in
\* this order, and no batch-delete: its calls are always a prefix of these
\* three, and all three when it returns without a failed list call.
C7_EmptyBucketCalls ==
    \A p \in Callers :
        (Deleting(p) /\ before[p].exists /\ before[p].entries = {}) =>
            LET expected == <<"ListObjects", "ListObjectVersions", "DeleteBucket">>
                n == Len(calls[p])
            IN /\ n <= 3
               /\ Ops(p) = SubSeq(expected, 1, n)
               /\ pc[p] = "done" => (n = 3 \/ ~Succeeded(calls[p][n]))

\* C7's case: the empty bucket was deleted with exactly the three calls.
C7_Witness ==
    \E p \in Callers :
        /\ Deleting(p) /\ before[p].exists /\ before[p].entries = {}
        /\ pc[p] = "done" /\ ret[p].err = NilErr
        /\ Len(calls[p]) = 3

\* C8: the version purge stops (Delete goes on to the delete-bucket call)
\* only after a list-object-versions response that carries neither a next
\* key-marker nor a next version-id-marker.
C8_StopsOnlyWhenBothCursorsAbsent ==
    \A p \in Callers :
        (Deleting(p) /\ pc[p] = "DeleteBucket") =>
            /\ output[p].NextKeyMarker = NoKey
            /\ output[p].NextVersionIdMarker = NoVersionId

-----------------------------------------------------------------------------
(* Properties of Create *)

Creating(p) == args[p].op = "Create"

PolicyPuts(p) == { i \in 1..Len(calls[p]) : calls[p][i].op = "PutBucketPolicy" }

\* The template parses and renders: every action is closed and names a
\* field BucketDetails has.
Renders(policy) ==
    \A i \in 1..Len(policy) :
        /\ policy[i] # Unclosed
        /\ policy[i] # Field("Missing")

\* The template with its placeholders replaced: the bucket-name placeholder
\* by name, the region placeholder by the details' region.
Substituted(policy, name, details) ==
    [i \in 1..Len(policy) |->
        IF policy[i] = Field("BucketName") THEN name
        ELSE IF policy[i] = Field("Region") THEN details.Region
        ELSE policy[i].name]

\* C9: Create issues at most one put-bucket-policy call, always right after
\* a successful create-bucket call, for the bucket bucketName and with the
\* template in which the bucket-name placeholder is bucketName, whatever
\* BucketName the details carry; it issues one when the template is not
\* empty (and parses and renders) and none when the policy is empty.
C9_PolicyForCreatedBucket ==
    \A p \in Callers : Creating(p) =>
        LET name == args[p].bucketName
            details == args[p].bucketDetails
            expected == [Bucket |-> name,
                         Policy |-> Substituted(details.Policy, name, details)]
        IN /\ \A i \in PolicyPuts(p) :
                /\ i = 2
                /\ calls[p][1].op = "CreateBucket" /\ Succeeded(calls[p][1])
                /\ calls[p][i].in = expected
           /\ Len(details.Policy) = 0 => PolicyPuts(p) = {}
           /\ pc[p] = "PutBucketPolicy" => putPolicyInput[p] = expected
           /\ (/\ pc[p] = "done"
               /\ Len(calls[p]) >= 1 /\ Succeeded(calls[p][1])
               /\ Len(details.Policy) > 0 /\ Renders(details.Policy))
                    => PolicyPuts(p) = {2}

\* C9's case: a template with the bucket-name placeholder, details naming
\* another bucket, and the policy applied.
C9_Witness ==
    \E p \in Callers :
        /\ Creating(p) /\ pc[p] = "done" /\ ret[p].err = NilErr
        /\ args[p].bucketDetails.BucketName \notin {"", args[p].bucketName}
        /\ \E i \in 1..Len(args[p].bucketDetails.Policy) :
                args[p].bucketDetails.Policy[i] = Field("BucketName")
        /\ PolicyPuts(p) = {2}
        /\ store[args[p].bucketName].policy = calls[p][2].in.Policy

\* Where a Create failed after its create-bucket call succeeded.
FailedAtParse(p) ==
    /\ Len(calls[p]) >= 1 /\ Succeeded(calls[p][1])
    /\ \E i \in 1..Len(args[p].bucketDetails.Policy) :
            args[p].bucketDetails.Policy[i] = Unclosed

FailedAtRender(p) ==
    /\ Len(calls[p]) >= 1 /\ Succeeded(calls[p][1])
    /\ ~FailedAtParse(p)
    /\ \E i \in 1..Len(args[p].bucketDetails.Policy) :
            args[p].bucketDetails.Policy[i] = Field("Missing")

FailedAtPutPolicy(p) ==
    \E i \in PolicyPuts(p) : ~Succeeded(calls[p][i])

\* C10: a Create that fails at the template parse, the template rendering
\* or the put-bucket-policy call has returned an error and an empty
\* location; the bucket it created exists and has no policy; it issued
\* nothing but the create-bucket call and at most the one (failed)
\* put-bucket-policy call.
C10_NoRollbackOfCreate ==
    \A p \in Callers :
        (Creating(p) /\ (FailedAtParse(p) \/ FailedAtRender(p) \/ FailedAtPutPolicy(p))) =>
            /\ pc[p] = "done"
            /\ ret[p].err # NilErr
            /\ ret[p].location = <<>>
            /\ store[args[p].bucketName].exists
            /\ store[args[p].bucketName].policy = <<>>
            /\ Ops(p) = IF FailedAtPutPolicy(p)
                        THEN <<"CreateBucket", "PutBucketPolicy">>
                        ELSE <<"CreateBucket">>

\* C10's case: the put-bucket-policy call failed after the bucket was made.
C10_Witness ==
    \E p \in Callers :
        /\ Creating(p) /\ pc[p] = "done"
        /\ FailedAtPutPolicy(p)
        /\ ~before[p].exists
        /\ store[args[p].bucketName].exists


\* C11: when the create-bucket call fails, Create has returned a non-nil
\* error and an empty location, and that call is its only remote call: no
\* put-bucket-policy call is issued, whatever policy the details carry.
C11_CreateBucketFailureSurfaces ==
    \A p \in Callers :
        (Creating(p) /\ Len(calls[p]) >= 1 /\ ~Succeeded(calls[p][1])) =>
            /\ pc[p] = "done"
            /\ ret[p].err # NilErr
            /\ ret[p].err = TranslateErr(calls[p][1].err)
            /\ ret[p].location = <<>>
            /\ Ops(p) = <<"CreateBucket">>

\* C11's case: Create of a name that is taken, with a policy that renders.
C11_Witness ==
    \E p \in Callers :
        /\ Creating(p) /\ pc[p] = "done"
        /\ before[p].exists
        /\ Len(calls[p]) = 1 /\ calls[p][1].err = BucketAlreadyExists
        /\ Len(args[p].bucketDetails.Policy) > 0
        /\ Renders(args[p].bucketDetails.Policy)


-----------------------------------------------------------------------------
(* Properties of Describe and Modify *)

Describing(p) == args[p].op = "Describe"

\* p's Describe has returned and its get-bucket-location call succeeded.
Described(p) ==
    /\ Describing(p) /\ pc[p] = "done"
    /\ Len(calls[p]) = 1 /\ Succeeded(calls[p][1])

\* C12: a Describe that succeeds returns the bucket name it was given and
\* the arn "arn:" + partition + ":s3:::" + bucketName.
C12_ArnOfNameAndPartition ==
    \A p \in Callers :
        (Describing(p) /\ pc[p] = "done" /\ ret[p].err = NilErr) =>
            /\ ret[p].details.BucketName = args[p].bucketName
            /\ ret[p].details.ARN =
                    "arn:" \o args[p].partition \o ":s3:::" \o args[p].bucketName

\* C12's case: a successful Describe under the partition aws-us-gov.
C12_Witness ==
    \E p \in Callers :
        /\ Described(p) /\ ret[p].err = NilErr
        /\ args[p].partition = "aws-us-gov"
        /\ ret[p].details.ARN = "arn:aws-us-gov:s3:::" \o args[p].bucketName

\* The region an empty or absent location constraint stands for.
DefaultRegion == "us-east-1"

\* C13: once the get-bucket-location call has succeeded, Describe returns
\* successfully, with the default region for an empty or absent location
\* constraint and with the constraint itself otherwise.
C13_RegionOfLocationConstraint ==
    \A p \in Callers :
        (Describing(p) /\ Len(calls[p]) = 1 /\ Succeeded(calls[p][1])) =>
            LET constraint == calls[p][1].out.LocationConstraint
            IN /\ pc[p] = "done"
               /\ ret[p].err = NilErr
               /\ ret[p].details.Region =
                    IF constraint \in {NilString, StringPtr("")}
                    THEN DefaultRegion
                    ELSE constraint[1]

\* C14: a get-bucket-location call that fails because the bucket
\* does not exist makes Describe return ErrBucketDoesNotExist, any other
\* failure a generic error; no bucket details either way.
C14_DescribeOfMissingBucketIsNotFound ==
    \A p \in Callers :
        (Describing(p) /\ Len(calls[p]) = 1 /\ ~Succeeded(calls[p][1])) =>
            /\ pc[p] = "done"
            /\ ret[p].details = ZeroBucketDetails
            /\ (ret[p].err = ErrBucketDoesNotExist) <=> calls[p][1].err = NoSuchBucket

\* C15: every step in which a Modify runs returns nil, issues no remote
\* call and leaves every bucket of the service as it was.
C15_ModifyIsNoOp ==
    [][\A p \in Callers :
          (pc[p] = "idle" /\ args'[p].op = "Modify") =>
              /\ pc'[p] = "done"
              /\ ret'[p].err = NilErr
              /\ calls' = calls
              /\ store' = store]_vars

\* C15's case: Modify with a policy in the details has returned for a
\* bucket that holds an object and a policy.
C15_Witness ==
    \E p \in Callers :
        /\ args[p].op = "Modify" /\ pc[p] = "done"
        /\ Len(args[p].bucketDetails.Policy) > 0
        /\ before[p] = BucketWithPolicy
        /\ store[args[p].bucketName] = BucketWithPolicy

-----------------------------------------------------------------------------
(* Properties of concurrent calls *)

\* The bucket after the calls cs, when no other call reaches it.
RECURSIVE Replay(_, _)
Replay(bucket, cs) ==
    IF cs = <<>> THEN bucket
    ELSE LET c == cs[Len(cs)]
             b == Replay(bucket, SubSeq(cs, 1, Len(cs) - 1))
         IN IF ~Succeeded(c) THEN b
            ELSE IF c.op = "DeleteObjects" THEN S3DeleteObjects(b, c.in.Objects)
            ELSE IF c.op = "DeleteBucket" THEN NoBucket
            ELSE b

\* Each call of cs got an answer the service gives when only the calls of
\* cs reach the bucket.
AnsweredAlone(bucket, cs) ==
    \A i \in 1..Len(cs) :
        LET c == cs[i]
            b == Replay(bucket, SubSeq(cs, 1, i - 1))
        IN IF ~Succeeded(c) THEN c.err \in Failures(c.op, b)
           ELSE /\ CanSucceed(c.op, b)
                /\ c.op = "ListObjects" => c.out = S3ListObjects(b, c.in)
                /\ c.op = "ListObjectVersions" =>
                      \E shape \in CursorShapes :
                          c.out = S3ListObjectVersions(b, c.in, shape)

\* C16: with two Deletes on different bucket names in flight, each call's
\* remote calls are addressed to its own bucket and to no bucket the other
\* call addresses, each got the answer it gets when the call runs alone,
\* the bucket is what the call's own remote calls alone make of it, and a
\* finished call returns nil exactly when its last remote call succeeded.
C16_ConcurrentDeletesAreIsolated ==
    \A p \in Callers : Deleting(p) =>
        LET b == args[p].bucketName
            cs == calls[p]
        IN /\ \A i \in 1..Len(cs) : cs[i].in.Bucket = b
           /\ \A q \in Callers \ {p} : \A i \in 1..Len(cs) : \A j \in 1..Len(calls[q]) :
                    calls[q][j].in.Bucket # cs[i].in.Bucket
           /\ AnsweredAlone(before[p], cs)
           /\ store[b] = Replay(before[p], cs)
           /\ pc[p] = "done" =>
                (ret[p].err = NilErr <=> Succeeded(cs[Len(cs)]))

\* C16's case: both callers are in the middle of their Deletes, each has
\* already changed its own bucket, and both buckets held entries.
C16_Witness ==
    /\ \A p \in Callers :
        /\ Deleting(p) /\ pc[p] \notin {"idle", "done"}
        /\ before[p].exists /\ before[p].entries # {}
        /\ store[args[p].bucketName] # before[p]
    /\ args[1].bucketName # args[2].bucketName

-----------------------------------------------------------------------------
(* Properties of the two purge loops *)

\* The calls of one operation of the service that p has issued.
CallsOf(p, op) == { i \in 1..Len(calls[p]) : calls[p][i].op = op }

\* The last call of the set I before call k (0 when there is none).
LastBefore(I, k) ==
    LET J == { j \in I : j < k }
    IN IF J = {} THEN 0 ELSE CHOOSE j \in J : \A l \in J : l <= j

\* The pagination marker a list-objects response reports: none when the
\* listing is complete, else NextMarker or, when that is absent, the last
\* key of the page.
ReportedMarker(out) ==
    IF ~out.IsTruncated THEN NoKey
    ELSE IF out.NextMarker # NoKey THEN out.NextMarker
    ELSE out.Contents[Len(out.Contents)]

C18_VersionListingFollowsNextCursors ==
    \A p \in Callers : Deleting(p) =>
        LET L == CallsOf(p, "ListObjectVersions")
        IN \A i \in L :
            LET j == LastBefore(L, i)
                in == calls[p][i].in
            IN IF j = 0
               THEN in.KeyMarker = NoKey /\ in.VersionIdMarker = NoVersionId
               ELSE /\ in.KeyMarker = calls[p][j].out.NextKeyMarker
                    /\ in.VersionIdMarker = calls[p][j].out.NextVersionIdMarker

\* The (key, versionId) pairs of the entries of a list-object-versions
\* page, delete markers included.
PageEntries(out) ==
    { out.Versions[i] : i \in 1..Len(out.Versions) }
        \cup { out.DeleteMarkers[i] : i \in 1..Len(out.DeleteMarkers) }

\* C19: every list-object-versions page with at least one entry, delete
\* markers counted, is followed by one batch-delete that addresses exactly
\* the (key, versionId) pairs of the page's entries.
C19_BatchCoversEveryEntryOfPage ==
    \A p \in Callers : Deleting(p) =>
        \A i \in CallsOf(p, "ListObjectVersions") :
            (Succeeded(calls[p][i]) /\ PageEntries(calls[p][i].out) # {}) =>
                LET batch == IF i < Len(calls[p])
                             THEN calls[p][i + 1].in
                             ELSE [Bucket |-> args[p].bucketName, Objects |-> objects[p]]
                IN /\ i < Len(calls[p]) => i + 1 \in VersionBatches(p)
                   /\ i = Len(calls[p]) => pc[p] = "DeleteVersions"
                   /\ { batch.Objects[k] : k \in 1..Len(batch.Objects) }
                        = PageEntries(calls[p][i].out)

\* The keys a bucket has entries for.
KeysOf(bucket) == { e.key : e \in bucket.entries }

\* The most remote calls a Delete of the bucket can take: the list-objects
\* call and its batch-delete, a list-object-versions call and a batch-delete
\* per key, the list-object-versions call of the final page and the
\* delete-bucket call.
CallBound(bucket) == 2 + 2 * Cardinality(KeysOf(bucket)) + 2

\* C20: a Delete that has not returned can always take its next step, which
\* issues one remote call, and it never issues more remote calls than
\* CallBound of the bucket it was called on allows: it returns after
\* finitely many remote calls, once each of them returns.  Each
\* list-object-versions request starts after a later key than the one
\* before it, so no page is listed twice.
C20_DeleteTerminates ==
    \A p \in Callers : Deleting(p) =>
        /\ Len(calls[p]) <= CallBound(before[p])
        /\ pc[p] # "done" => ENABLED DeleteStep(p)
        /\ pc[p] = "done" => Len(calls[p]) >= 1
        /\ \A i, j \in CallsOf(p, "ListObjectVersions") :
                i < j => calls[p][i].in.KeyMarker < calls[p][j].in.KeyMarker

\* C20's case: a Delete has returned after three list-object-versions
\* pages, the first two of them truncated.
C20_Witness ==
    \E p \in Callers :
        /\ Deleting(p) /\ pc[p] = "done"
        /\ Cardinality(CallsOf(p, "ListObjectVersions")) >= 3
        /\ calls[p][Len(calls[p])].op = "DeleteBucket"

====
